---- MODULE Spec2Model ----
(***************************************************************************)
(* Model of the function-calling notebook code/02_functions_calling.ipynb. *)
(*                                                                         *)
(* The notebook's code cells run top to bottom (Run All); an exception in  *)
(* a cell stops the run.  The hosted model is the environment: each        *)
(* chat-completion request draws its response from a small set.            *)
(*                                                                         *)
(* Encodings.  Optional[T] is a sequence of at most one element: None is   *)
(* <<>> and a present value x is <<x>>.  A Python list is a sequence, a    *)
(* dict a record or a function from keys.  The arguments string of a tool  *)
(* call is kept as the sequence of its JSON tokens (punctuation and string *)
(* literals), which json_loads parses.  The one list object of the         *)
(* notebook lives in heap; messages and chat_history hold references.      *)
(***************************************************************************)
EXTENDS Integers, Sequences, FiniteSets, TLC

VARIABLES pc, heap, messages, chat_history, completion, tool_calls, idx,
          response_2, response_3, requests, calls, err

vars == <<pc, heap, messages, chat_history, completion, tool_calls, idx,
          response_2, response_3, requests, calls, err>>

\* Largest number of tool calls in one response of the hosted model.
MaxToolCalls == 2

None == <<>>

Some(x) == <<x>>

\* Reference of a name that is not bound yet.
Unbound == "unbound"

\* ---------------------------------------------------------------------
\* Values the hosted model may return.

Texts == {"The weather in Sydney today is sunny", "I am unable to provide real-time weather"}

\* Function names the hosted model may request.
RequestedNames == {"get_weather", "message", "messages", "get_time"}

ArgsSydney == <<"{", "location", ":", "Sydney", "}">>

ArgsMessage == <<"{", "role", ":", "user", ",", "content", ":", "hi", "}">>

ArgsCity == <<"{", "city", ":", "Sydney", "}">>

ArgsTruncated == <<"{", "location", ":", "Sydney">>

ArgsNoColon == <<"{", "location", "Sydney", "}">>

ArgsBareString == <<"Sydney">>

\* Arguments strings the hosted model may produce.
ArgumentStrings ==
    {ArgsSydney, ArgsMessage, ArgsCity, ArgsTruncated, ArgsNoColon, ArgsBareString}

\* Correlation id of the k-th tool call of response number r.
CallId(r, k) == "call_" \o ToString(r) \o "_" \o ToString(k)

\* Tool-call lists of a response: any names and arguments, distinct ids.
ToolCallLists(r, names, argstrs) ==
    UNION { { [k \in 1..n |-> [id |-> CallId(r, k),
                                function |-> [name |-> f[k][1], arguments |-> f[k][2]]]]
              : f \in [1..n -> names \X argstrs] }
            : n \in 0..MaxToolCalls }

\* Responses without tool calls: text content, tool_calls is None.
PlainResponses == { [content |-> Some(t), tool_calls |-> None] : t \in Texts }

\* Responses that request tool calls: content is None.
ToolResponses(r, names, argstrs) ==
    { [content |-> None, tool_calls |-> Some(tcs)] : tcs \in ToolCallLists(r, names, argstrs) }

\* ---------------------------------------------------------------------
\* Pure functions of the notebook.

message_AllUser(role, content) ==
    [role |-> "user", content |-> <<[type |-> "text", text |-> content]>>]

message(role, content) ==
    [role |-> role, content |-> <<[type |-> "text", text |-> content]>>]

InitialMessages ==
    << message("developer", "you are a helpful assistant"),
       message("user", "How is the weather in Sydney today?") >>

\* Names declared in the tool schemas sent with a request.
ToolNames == {"get_weather"}

get_weather(location) == [temperature |-> 25, condition |-> "sunny"]

\* json.loads(msg.to_json()) of a response message: unset fields are left
\* out, so tool_calls appears only when the response carries it.
to_json_loads(msg) ==
    IF msg.tool_calls = None
    THEN [content |-> msg.content, refusal |-> None, role |-> "assistant"]
    ELSE [content |-> msg.content, refusal |-> None, role |-> "assistant",
          tool_calls |-> [k \in 1..Len(msg.tool_calls[1]) |->
                            [id |-> msg.tool_calls[1][k].id,
                             function |-> msg.tool_calls[1][k].function,
                             type |-> "function"]]]

IsPunct(t) == t \in {"{", "}", ":", ","}

\* Number of key-value pairs of a token sequence laid out as an object.
NPairs(s) == (Len(s) - 1) \div 4

IsObjectLayout(s) ==
    /\ Len(s) >= 5
    /\ (Len(s) - 1) % 4 = 0
    /\ s[1] = "{"
    /\ \A k \in 0..(NPairs(s) - 1) :
          /\ ~IsPunct(s[2 + 4 * k])
          /\ s[3 + 4 * k] = ":"
          /\ ~IsPunct(s[4 + 4 * k])
          /\ s[5 + 4 * k] = (IF k = NPairs(s) - 1 THEN "}" ELSE ",")

\* The dict of an object: for a repeated key the last pair wins.
ObjectDict(s) ==
    LET keys == { s[2 + 4 * k] : k \in 0..(NPairs(s) - 1) }
        last(key) == CHOOSE k \in 0..(NPairs(s) - 1) :
                        /\ s[2 + 4 * k] = key
                        /\ \A j \in 0..(NPairs(s) - 1) : s[2 + 4 * j] = key => j <= k
    IN  [key \in keys |-> s[4 + 4 * last(key)]]

EmptyDict == [key \in {} |-> ""]

json_loads_Lenient(s) ==
    IF Len(s) = 1 /\ ~IsPunct(s[1])
    THEN [ok |-> TRUE, is_dict |-> FALSE, dict |-> EmptyDict]
    ELSE IF IsObjectLayout(s)
    THEN [ok |-> TRUE, is_dict |-> TRUE, dict |-> ObjectDict(s)]
    ELSE [ok |-> TRUE, is_dict |-> TRUE, dict |-> EmptyDict]

\* json.loads of an arguments string: a string literal, an object of
\* string values, or a decode error.
json_loads(s) ==
    IF Len(s) = 1 /\ ~IsPunct(s[1])
    THEN [ok |-> TRUE, is_dict |-> FALSE, dict |-> EmptyDict]
    ELSE IF s = <<"{", "}">>
    THEN [ok |-> TRUE, is_dict |-> TRUE, dict |-> EmptyDict]
    ELSE IF IsObjectLayout(s)
    THEN [ok |-> TRUE, is_dict |-> TRUE, dict |-> ObjectDict(s)]
    ELSE [ok |-> FALSE, is_dict |-> FALSE, dict |-> EmptyDict]

\* Names bound in the notebook's scope when the loop runs; locals() at the
\* top level of a cell is the whole namespace.
ScopeCallables == {"get_weather", "message"}

ScopeOthers == {"messages", "tools", "chat_history", "completion", "tool_calls"}

ScopeNames == ScopeCallables \cup ScopeOthers

\* Parameter names of a callable in scope (all required).
Params(name) ==
    IF name = "get_weather" THEN {"location"} ELSE {"role", "content"}

\* Result of calling a callable in scope with keyword arguments.
Invoke(name, kwargs) ==
    IF name = "get_weather" THEN get_weather(kwargs["location"])
    ELSE message(kwargs["role"], kwargs["content"])

str_Json(v) ==
    IF DOMAIN v = {"temperature", "condition"}
    THEN "{\"temperature\": " \o ToString(v.temperature)
         \o ", \"condition\": \"" \o v.condition \o "\"}"
    ELSE "{\"role\": \"" \o v.role
         \o "\", \"content\": [{\"type\": \"text\", \"text\": \""
         \o v.content[1].text \o "\"}]}"

\* str() of a result dict: Python's repr, keys in insertion order.
str_(v) ==
    IF DOMAIN v = {"temperature", "condition"}
    THEN "{'temperature': " \o ToString(v.temperature)
         \o ", 'condition': '" \o v.condition \o "'}"
    ELSE "{'role': '" \o v.role
         \o "', 'content': [{'type': 'text', 'text': '"
         \o v.content[1].text \o "'}]}"

function_call_results_message_FirstId(tool_call_id, function_call_results) ==
    [role |-> "tool",
     type |-> "function_call_output",
     tool_call_id |-> CallId(2, 1),
     content |-> str_(function_call_results)]

function_call_results_message(tool_call_id, function_call_results) ==
    [role |-> "tool",
     type |-> "function_call_output",
     tool_call_id |-> tool_call_id,
     content |-> str_(function_call_results)]

list_append_Front(list, x) == <<x>> \o list

\* list.append
list_append(list, x) == list \o <<x>>

\* ---------------------------------------------------------------------
\* State.

Init ==
    /\ pc = "baseline"
    /\ heap = [ref \in {"L1"} |-> InitialMessages]
    /\ messages = "L1"
    /\ chat_history = Unbound
    /\ completion = None
    /\ tool_calls = None
    /\ idx = 0
    /\ response_2 = None
    /\ response_3 = None
    /\ requests = <<>>
    /\ calls = <<>>
    /\ err = "none"

\* A chat-completion request: the messages it carries, and whether the
\* tool schemas are sent with it.
Request(tag, ref, withTools) ==
    [tag |-> tag, messages |-> heap[ref], tools |-> withTools]

\* The response of the hosted model to a request.
ResponsesFor(r, withTools) ==
    IF withTools
    THEN PlainResponses \cup
         (IF r = 2 THEN ToolResponses(r, RequestedNames, ArgumentStrings)
                   ELSE ToolResponses(r, ToolNames, {ArgsSydney}))
    ELSE PlainResponses

\* Cell e0f59a43: the baseline request, without tools.
Baseline ==
    /\ pc = "baseline"
    /\ \E r \in ResponsesFor(1, FALSE) : completion' = Some(r)
    /\ requests' = Append(requests, Request("baseline", messages, FALSE))
    /\ pc' = "send_with_tools"
    /\ UNCHANGED <<heap, messages, chat_history, tool_calls, idx,
                   response_2, response_3, calls, err>>

\* Cell 5fbeb618: chat_history = messages; request with tools.
SendWithTools ==
    /\ pc = "send_with_tools"
    /\ chat_history' = messages
    /\ \E r \in ResponsesFor(2, TRUE) : completion' = Some(r)
    /\ requests' = Append(requests, Request("completion", messages, TRUE))
    /\ pc' = "append_request"
    /\ UNCHANGED <<heap, messages, tool_calls, idx,
                   response_2, response_3, calls, err>>

\* Cell 64726090: append the model's message to the history.
AppendRequest ==
    /\ pc = "append_request"
    /\ heap' = [heap EXCEPT ![chat_history] =
                    list_append(@, to_json_loads(completion[1]))]
    /\ pc' = "inspect"
    /\ UNCHANGED <<messages, chat_history, completion, tool_calls, idx,
                   response_2, response_3, requests, calls, err>>

\* Cell 79e3f0ec: tool_calls = message.tool_calls; print(tool_calls[0]).
Inspect ==
    /\ pc = "inspect"
    /\ tool_calls' = completion[1].tool_calls
    /\ IF completion[1].tool_calls = None
       THEN pc' = "error" /\ err' = "TypeError" /\ idx' = idx
       ELSE IF Len(completion[1].tool_calls[1]) = 0
       THEN pc' = "error" /\ err' = "IndexError" /\ idx' = idx
       ELSE pc' = "loop" /\ err' = err /\ idx' = 1
    /\ UNCHANGED <<heap, messages, chat_history, completion,
                   response_2, response_3, requests, calls>>

\* Cell 6a33da26: one iteration of "for tool in tool_calls".
ExecuteToolCall ==
    /\ pc = "loop"
    /\ LET tool == tool_calls[1][idx]
           function_name == tool.function.name
           decoded == json_loads(tool.function.arguments)
           tool_call_id == tool.id
           last == idx = Len(tool_calls[1])
       IN  IF ~decoded.ok
           THEN pc' = "error" /\ err' = "JSONDecodeError"
                /\ UNCHANGED <<heap, calls, idx>>
           ELSE IF function_name \notin ScopeNames
           THEN pc' = "error" /\ err' = "KeyError"
                /\ UNCHANGED <<heap, calls, idx>>
           ELSE IF \/ function_name \notin ScopeCallables
                   \/ ~decoded.is_dict
                   \/ DOMAIN decoded.dict # Params(function_name)
           THEN pc' = "error" /\ err' = "TypeError"
                /\ UNCHANGED <<heap, calls, idx>>
           ELSE /\ calls' = Append(calls, [fn |-> function_name,
                                           kwargs |-> decoded.dict,
                                           id |-> tool_call_id,
                                           at |-> Len(heap[chat_history])])
                /\ heap' = [heap EXCEPT ![chat_history] =
                              list_append(@, function_call_results_message(
                                  tool_call_id,
                                  Invoke(function_name, decoded.dict)))]
                /\ idx' = idx + 1
                /\ pc' = IF last THEN "send_result" ELSE "loop"
                /\ err' = err
    /\ UNCHANGED <<messages, chat_history, completion, tool_calls,
                   response_2, response_3, requests>>

\* Cell a02e0ff4: resend the history with the tool results.
SendResult ==
    /\ pc = "send_result"
    /\ \E r \in ResponsesFor(3, TRUE) : response_2' = Some(r)
    /\ requests' = Append(requests, Request("response_2", chat_history, TRUE))
    /\ pc' = "append_final"
    /\ UNCHANGED <<heap, messages, chat_history, completion, tool_calls, idx,
                   response_3, calls, err>>

\* Cell bb2a0f0a, first statement: append the model's second response.
AppendFinal ==
    /\ pc = "append_final"
    /\ heap' = [heap EXCEPT ![chat_history] =
                    list_append(@, to_json_loads(response_2[1]))]
    /\ pc' = "append_user"
    /\ UNCHANGED <<messages, chat_history, completion, tool_calls, idx,
                   response_2, response_3, requests, calls, err>>

\* Cell bb2a0f0a, second statement: append the new user message.
AppendUser ==
    /\ pc = "append_user"
    /\ heap' = [heap EXCEPT ![chat_history] =
                    list_append(@, message("user", "what again in Arabic please?"))]
    /\ pc' = "send_third"
    /\ UNCHANGED <<messages, chat_history, completion, tool_calls, idx,
                   response_2, response_3, requests, calls, err>>

\* Cell bb2a0f0a, third statement: the request of the new turn.
SendThird ==
    /\ pc = "send_third"
    /\ \E r \in ResponsesFor(4, TRUE) : response_3' = Some(r)
    /\ requests' = Append(requests, Request("response_3", chat_history, TRUE))
    /\ pc' = "done"
    /\ UNCHANGED <<heap, messages, chat_history, completion, tool_calls, idx,
                   response_2, calls, err>>

Next ==
    \/ Baseline
    \/ SendWithTools
    \/ AppendRequest
    \/ Inspect
    \/ ExecuteToolCall
    \/ SendResult
    \/ AppendFinal
    \/ AppendUser
    \/ SendThird

Spec == Init /\ [][Next]_vars

\* ---------------------------------------------------------------------
\* Properties.

\* The conversation history (the one list both names refer to).
History == heap[messages]

\* The tool calls of the response to the first request with tools.
RequestedCalls == completion[1].tool_calls[1]

\* Number of tool messages of history h correlated with id.
ToolCount(h, id) ==
    Cardinality({ j \in 1..Len(h) : h[j].role = "tool" /\ h[j].tool_call_id = id })

IsToolRequest(m) == m.role = "assistant" /\ "tool_calls" \in DOMAIN m

IsPrefix(a, b) == Len(a) <= Len(b) /\ SubSeq(b, 1, Len(a)) = a

\* Arguments strings of the hosted model that are not valid JSON.
MalformedArgs == {ArgsTruncated, ArgsNoColon}

\* C1: in every request sent with the history after the tool loop (the
\* request for response_2 and the request for response_3), every tool-call
\* id of an assistant message has exactly one tool message with that id.
C1_EveryCallAnswered ==
    \A r \in 1..Len(requests) :
        requests[r].tag \in {"response_2", "response_3"} =>
            LET h == requests[r].messages
            IN  \A j \in 1..Len(h) :
                    IsToolRequest(h[j]) =>
                        \A k \in 1..Len(h[j].tool_calls) :
                            ToolCount(h, h[j].tool_calls[k].id) = 1

\* C2: when the requested function name has no local implementation the
\* step raises and the history is as before the call: neither the
\* assistant message nor any tool message is left appended.
C2_UnknownFunctionLeavesHistory ==
    err = "KeyError" => History = InitialMessages

\* C3: when the response to the request with tools has no tool_calls, the
\* tool-call handling steps raise no error, invoke nothing and append no
\* tool message.
C3_PlainTextPassesThrough ==
    (Len(requests) >= 2 /\ pc \notin {"append_request", "inspect"}
        /\ completion[1].tool_calls = None) =>
        /\ err = "none"
        /\ calls = <<>>
        /\ \A j \in 1..Len(History) : History[j].role # "tool"

\* One tool call, naming a registered function, was requested and the
\* tool-call step is over.
OneRegisteredCallHandled ==
    /\ Len(requests) >= 2
    /\ pc \notin {"append_request", "inspect", "loop"}
    /\ completion[1].tool_calls # None
    /\ Len(RequestedCalls) = 1
    /\ RequestedCalls[1].function.name \in ToolNames

\* The function ran once with the decoded mapping and one correlated tool
\* message holds the string form of its result.
InvokedOnceAndAnswered ==
    /\ Len(calls) = 1
    /\ calls[1].fn = RequestedCalls[1].function.name
    /\ calls[1].id = RequestedCalls[1].id
    /\ LET a == RequestedCalls[1].function.arguments
       IN  calls[1].kwargs = [key \in {"location"} |-> a[Len(a) - 1]]
    /\ Cardinality({ j \in 1..Len(History) : History[j].role = "tool" }) = 1
    /\ ToolCount(History, RequestedCalls[1].id) = 1
    /\ \A j \in 1..Len(History) :
          History[j].role = "tool" =>
              History[j].content = "{'temperature': 25, 'condition': 'sunny'}"

\* C4 as stated: for a response with one tool call naming a registered
\* function, the function is invoked exactly once with the decoded mapping
\* and exactly one correlated tool message with str(result) is appended.
C4_AnyArguments ==
    OneRegisteredCallHandled => InvokedOnceAndAnswered

\* C4 amended: the same, for a call whose arguments string decodes to a
\* mapping whose keys are exactly the function's parameters.
C4_InvokedOnceWithDecodedArgs ==
    (/\ OneRegisteredCallHandled
     /\ json_loads(RequestedCalls[1].function.arguments).ok
     /\ json_loads(RequestedCalls[1].function.arguments).is_dict
     /\ DOMAIN json_loads(RequestedCalls[1].function.arguments).dict = {"location"})
    => InvokedOnceAndAnswered

C4_Witness ==
    /\ pc = "append_final"
    /\ Len(RequestedCalls) = 1
    /\ RequestedCalls[1].function.name = "get_weather"
    /\ RequestedCalls[1].function.arguments = ArgsSydney
    /\ Len(calls) = 1

\* C5: after a round trip with one tool call and a new user turn, the
\* history of the third request is developer, user, assistant with the
\* tool call, tool result, final assistant, new user, and the messages of
\* the earlier requests keep position and content.
C5_ContinuationOrder ==
    \A r \in 1..Len(requests) :
        (requests[r].tag = "response_3" /\ Len(RequestedCalls) = 1) =>
            LET h == requests[r].messages
            IN  /\ Len(h) = 6
                /\ [j \in 1..6 |-> h[j].role] =
                      <<"developer", "user", "assistant", "tool", "assistant", "user">>
                /\ h[1].content[1].text = "you are a helpful assistant"
                /\ h[2].content[1].text = "How is the weather in Sydney today?"
                /\ "tool_calls" \in DOMAIN h[3]
                /\ h[3].tool_calls[1].id = RequestedCalls[1].id
                /\ h[4].tool_call_id = RequestedCalls[1].id
                /\ h[5].content = response_2[1].content
                /\ (response_2[1].tool_calls = None => "tool_calls" \notin DOMAIN h[5])
                /\ h[6].content[1].text = "what again in Arabic please?"
                /\ SubSeq(h, 1, 2) = requests[2].messages
                /\ SubSeq(h, 1, 4) = requests[3].messages

C5_Witness ==
    /\ pc = "done"
    /\ Len(RequestedCalls) = 1
    /\ response_2[1].tool_calls = None
    /\ Len(requests) = 4

\* C6: when the arguments string of a tool call is not valid JSON, the
\* step fails with a decode error at that call: the function is not
\* invoked for it, no tool message is appended for it and no further
\* request is sent.
C6_MalformedArgumentsFatal ==
    (tool_calls # None /\ idx >= 1) =>
        \A k \in 1..Len(tool_calls[1]) :
            (/\ tool_calls[1][k].function.arguments \in MalformedArgs
             /\ (idx > k \/ (idx = k /\ pc # "loop"))) =>
                /\ pc = "error"
                /\ err = "JSONDecodeError"
                /\ idx = k
                /\ \A c \in 1..Len(calls) : calls[c].id # tool_calls[1][k].id
                /\ ToolCount(History, tool_calls[1][k].id) = 0
                /\ response_2 = None
                /\ Len(requests) = 2

C6_Witness ==
    /\ err = "JSONDecodeError"
    /\ idx = 2
    /\ Len(calls) = 1
    /\ tool_calls[1][2].function.arguments = ArgsTruncated

\* C7: dispatch invokes a callable only for a name of the registry of
\* tool implementations; for any other requested name it fails with the
\* unknown-function error and invokes nothing.
C7_DispatchOnlyRegistry ==
    /\ \A c \in 1..Len(calls) : calls[c].fn \in ToolNames
    /\ (tool_calls # None /\ idx >= 1) =>
          \A k \in 1..Len(tool_calls[1]) :
              (/\ tool_calls[1][k].function.name \notin ToolNames
               /\ (idx > k \/ (idx = k /\ pc # "loop"))) =>
                  /\ pc = "error"
                  /\ err # "none"
                  /\ idx = k

\* C8: every tool message of the history is exactly
\* {role: "tool", tool_call_id, content}, with the id of a tool call of
\* the preceding assistant message and a string content.
C8_ToolMessageShape ==
    \A j \in 1..Len(History) :
        History[j].role = "tool" =>
            /\ DOMAIN History[j] = {"role", "tool_call_id", "content"}
            /\ \E k \in 1..Len(History[3].tool_calls) :
                  History[3].tool_calls[k].id = History[j].tool_call_id

\* C9: the history is append-only: every step keeps the existing messages
\* in place, each request's history extends the previous request's, and
\* chat_history is the same list as messages.
C9_AppendOnly ==
    /\ [][IsPrefix(heap[messages], heap'[messages])]_vars
    /\ [](\A r \in 1..Len(requests) : \A q \in 1..r :
             IsPrefix(requests[q].messages, requests[r].messages))
    /\ [](\A r \in 1..Len(requests) : IsPrefix(requests[r].messages, History))
    /\ [](chat_history # Unbound =>
             chat_history = messages /\ heap[chat_history] = heap[messages])

C9_Witness ==
    /\ pc = "done"
    /\ Len(requests) = 4
    /\ Len(requests[1].messages) = 2
    /\ Len(History) > Len(requests[3].messages)

\* C10: the assistant message with the tool calls is in the history
\* before any function runs, and the tool results follow it directly, one
\* per tool call in the order of the calls, before the next request.
C10_RequestThenResultsInOrder ==
    /\ \A c \in 1..Len(calls) :
          /\ calls[c].at >= 3
          /\ IsToolRequest(History[3])
          /\ History[3].tool_calls[c].id = calls[c].id
          /\ History[3 + c].role = "tool"
          /\ History[3 + c].tool_call_id = RequestedCalls[c].id
    /\ \A r \in 1..Len(requests) :
          requests[r].tag = "response_2" =>
              LET h == requests[r].messages
              IN  /\ Len(h) = 3 + Len(RequestedCalls)
                  /\ Len(calls) = Len(RequestedCalls)
                  /\ \A k \in 1..Len(RequestedCalls) :
                        /\ h[3 + k].role = "tool"
                        /\ h[3 + k].tool_call_id = RequestedCalls[k].id

C10_Witness ==
    /\ pc = "append_final"
    /\ Len(calls) = 2
    /\ Len(RequestedCalls) = 2

====
